---- MODULE Spec2Model ----
(***************************************************************************)
(* Browser-side session/UI controller of shuva_tgbot.                      *)
(*                                                                         *)
(* Three near-duplicate controllers exist in the sources:                  *)
(*   "basic"   src/static/js/auth.js   lines   1-200                       *)
(*   "mobile"  src/static/js/auth.js   lines 202-445                       *)
(*   "sidebar" src/unnamed/part_000    lines   1-245                       *)
(* plus chatService (src/static/js/chat-service.js) and the translation    *)
(* module (src/static/js/i18n.js).  A page runs exactly one controller;    *)
(* `variant` says which.  JavaScript is single threaded: every action      *)
(* below is one run-to-completion step of a handler, from one suspension   *)
(* point (await, timer) to the next.                                       *)
(***************************************************************************)
EXTENDS Integers, Sequences, FiniteSets, TLC

VARIABLES
    variant,        \* which controller script the page loads
    present,        \* element ids that exist in the page's markup
    i18n,           \* state of window.i18nModule / window.i18next
    elementsInit,   \* initElements() has run (module references assigned)
    currentUser,    \* module variable currentUser
    dom,            \* per element: style.display, textContent, src, classList 'active',
                    \* and the click listener added to it
    supabaseClient, \* module variable supabaseClient (0 = undefined, n = n-th handle)
    winClient,      \* window.supabaseClient (0 = undefined)
    created,        \* number of createClient calls so far
    dcl,            \* position of the DOMContentLoaded handler
    checks,         \* checkAuth calls suspended at await getSession()
    logouts,        \* logout calls, each with its position and what it did
    chat,           \* chatService.init calls, each with its position
    ops,            \* chatService data operation calls, each with its position
    timers,         \* pending setTimeout callbacks, in firing order
    location,       \* window.location.href
    log,            \* console.error diagnostics outside logout (message keys)
    op,             \* history: the handler step taken last
    raised,         \* history: errors raised inside the UI functions by the last step
    response,       \* history: how the controller's configuration fetch was answered
    checked,        \* history: some checkAuth call has run to its end
    lastModal       \* history: the modal call made last ("none", "open", "close")

vars == <<variant, present, i18n, elementsInit, currentUser, dom,
          supabaseClient, winClient, created, dcl, checks, logouts, chat, ops,
          timers, location, log, op, raised, response, checked, lastModal>>

-----------------------------------------------------------------------------
(* Bounds of the model *)

MaxChecks  == 1     \* checkAuth calls in flight at once
MaxLogouts == 1     \* logout calls per page
MaxTimers  == 2     \* pending setTimeout callbacks
MaxChat    == 1     \* chatService.init calls per page
MaxClients == 3     \* createClient calls per page
MaxOps     == 1     \* chatService data operation calls per page

-----------------------------------------------------------------------------
(* Program constants *)

OpenDelayMs  == 10      \* setTimeout(..., 10) in openProfileModal
CloseDelayMs == 300     \* setTimeout(..., 300) in closeProfileModal
MaxPolls     == 50      \* for (let i = 0; i < 50; i++) in chatService.init

Variants == {"basic", "mobile", "sidebar"}

Null == "null"

\* Session users as getSession() reports them: one with both claims, one
\* with neither ("" is an absent, falsy claim).
Users == {"u1", "u2"}

EmailOf(u)  == IF u = "u1" THEN "user@example.com" ELSE ""
AvatarOf(u) == IF u = "u1" THEN "https://cdn/u1.png" ELSE ""

\* Element ids looked up by initElements, and the <img> child looked up by
\* querySelector('img') on the avatar blocks.
ProfileModal       == "profile-modal"
ProfileEmail       == "profile-email"
ProfileAvatar      == "profile-avatar-img"
UserAvatar         == "user-avatar"
LoginButton        == "login-button"
MobileUserAvatar   == "mobile-user-avatar"
MobileLoginButton  == "mobile-login-button"
SidebarUser        == "sidebar-user"
SidebarEmail       == "sidebar-email"
MobileSidebarUser  == "mobile-sidebar-user"
MobileSidebarEmail == "mobile-sidebar-email"
LogoutButton       == "logout-button"
CloseButton        == ".close-modal"
ModalContent       == ".modal-content"
Window             == "window"

AvatarBlocks(v) ==
    CASE v = "basic"   -> {UserAvatar}
      [] v = "mobile"  -> {UserAvatar, MobileUserAvatar}
      [] v = "sidebar" -> {SidebarUser, MobileSidebarUser}

ImgOf(id) ==
    CASE id = UserAvatar        -> "user-avatar img"
      [] id = MobileUserAvatar  -> "mobile-user-avatar img"
      [] id = SidebarUser       -> "sidebar-user img"
      [] id = MobileSidebarUser -> "mobile-sidebar-user img"

\* The ids initElements(v) passes to getElementById.
ElementIds(v) ==
    CASE v = "basic"   -> {ProfileModal, ProfileEmail, ProfileAvatar, UserAvatar,
                           LoginButton, LogoutButton}
      [] v = "mobile"  -> {ProfileModal, ProfileEmail, ProfileAvatar, UserAvatar,
                           LoginButton, MobileUserAvatar, MobileLoginButton,
                           LogoutButton}
      [] v = "sidebar" -> {ProfileModal, ProfileEmail, ProfileAvatar, SidebarUser,
                           SidebarEmail, MobileSidebarUser, MobileSidebarEmail,
                           LogoutButton}

\* Module variables assigned by initElements without any let/var declaration:
\* reading one before initElements has run raises a ReferenceError.
ImplicitGlobals(v) ==
    CASE v = "basic"   -> {}
      [] v = "mobile"  -> {MobileUserAvatar, MobileLoginButton}
      [] v = "sidebar" -> {SidebarUser, SidebarEmail, MobileSidebarUser,
                           MobileSidebarEmail}

AllIds ==
    UNION {ElementIds(v) : v \in Variants}
      \cup {ImgOf(b) : b \in UNION {AvatarBlocks(v) : v \in Variants}}
      \cup {CloseButton, ModalContent, Window}

\* Every page a controller can be loaded on: any subset of its optional
\* surfaces; an <img> exists only inside its avatar block, the close control
\* and the dialog content only inside the modal.
Pages(v) ==
    { p \in SUBSET (ElementIds(v) \cup {ImgOf(b) : b \in AvatarBlocks(v)}
                      \cup {CloseButton}) :
        /\ \A b \in AvatarBlocks(v) : ImgOf(b) \in p => b \in p
        /\ CloseButton \in p => ProfileModal \in p }

FullPage(v) ==
    ElementIds(v) \cup {ImgOf(b) : b \in AvatarBlocks(v)} \cup {CloseButton}

\* The page variants the templates ship: everything, no mobile sidebar, no
\* profile dialog, and a bare page.
DesktopPage(v) ==
    FullPage(v) \ {MobileUserAvatar, MobileLoginButton, MobileSidebarUser,
                   MobileSidebarEmail, ImgOf(MobileUserAvatar),
                   ImgOf(MobileSidebarUser)}

ShippedPages(v) ==
    {FullPage(v), DesktopPage(v),
     FullPage(v) \ {ProfileModal, ProfileEmail, ProfileAvatar, CloseButton,
                    LogoutButton},
     {}}

Markup == [display |-> "", text |-> "", src |-> "", active |-> FALSE, click |-> ""]

-----------------------------------------------------------------------------
(* Errors and results of synchronous code *)

NoErr        == "none"
NullElement  == "TypeError: null element"
ReferenceErr == "ReferenceError: element variable"
I18nErr      == "i18n unavailable"
NoClientErr  == "TypeError: supabaseClient undefined"

Ok(d)       == [dom |-> d, err |-> NoErr]
Throw(d, e) == [dom |-> d, err |-> e]

\* window.i18nModule.t(key, fallback), src/static/js/i18n.js t(): i18next.t
\* returns the translation of a key the loaded locale has, else the fallback.
TranslatedKeys == {"auth.login"}

T(key, fallback) ==
    CASE i18n = "absent"   -> [val |-> "", err |-> I18nErr]
      [] i18n = "unloaded" -> [val |-> "", err |-> I18nErr]
      [] i18n = "ready"    ->
            [val |-> IF key \in TranslatedKeys THEN "Log in" ELSE fallback,
             err |-> NoErr]

\* The literal fallbacks of the sources ('Нет email', 'Войти').
NoEmailLiteral == "Net email"
LoginLiteral   == "Voiti"

DefaultAvatar(v) ==
    CASE v = "basic"   -> "/static/images/default-avatar.png"
      [] v = "mobile"  -> "/static/images/logo.svg"
      [] v = "sidebar" -> "/static/images/icon_profile.svg"

-----------------------------------------------------------------------------
(* Guarded statements over the element references *)

\* What a module variable holding an element reference evaluates to.
RefStateAt(init, id) ==
    IF ~init
    THEN IF id \in ImplicitGlobals(variant) THEN "undeclared" ELSE "null"
    ELSE IF id \in present THEN "elem" ELSE "null"

\* One statement of the UI functions.  guard "elem" is `if (x) { x.f = v }`,
\* "img" is `if (x && x.querySelector('img')) { img.f = v }`, "each" is
\* `querySelectorAll(sel).forEach(b => b.f = v)` and "always" has no guard
\* and a target that always exists (window).
Stmt(guard, id, field, val) == [guard |-> guard, id |-> id, field |-> field, val |-> val]

Lit(v) == [val |-> v, err |-> NoErr]

\* Faulty variant of Step: the `if (x)` guard is left out, so a write to an
\* absent element raises.
StepUnguarded(init, s, d) ==
    LET rs     == RefStateAt(init, s.id)
        target == IF s.guard = "img" THEN ImgOf(s.id) ELSE s.id
    IN  CASE s.guard = "always" ->
                IF s.val.err # NoErr THEN Throw(d, s.val.err)
                ELSE Ok([d EXCEPT ![s.id][s.field] = s.val.val])
          [] s.guard = "each" ->
                IF s.id \notin present THEN Ok(d)
                ELSE Ok([d EXCEPT ![s.id][s.field] = s.val.val])
          [] OTHER ->
                IF rs = "undeclared" THEN Throw(d, ReferenceErr)
                ELSE IF rs = "null" THEN Throw(d, NullElement)
                ELSE IF s.guard = "img" /\ target \notin present THEN Throw(d, NullElement)
                ELSE IF s.val.err # NoErr THEN Throw(d, s.val.err)
                ELSE Ok([d EXCEPT ![target][s.field] = s.val.val])

\* Faulty variant of Step: the property is toggled (as classList.toggle
\* would) instead of assigned.
StepToggles(init, s, d) ==
    LET rs     == RefStateAt(init, s.id)
        target == IF s.guard = "img" THEN ImgOf(s.id) ELSE s.id
        Flip(old) == IF old = s.val.val THEN "" ELSE s.val.val
    IN  CASE s.guard = "always" ->
                IF s.val.err # NoErr THEN Throw(d, s.val.err)
                ELSE Ok([d EXCEPT ![s.id][s.field] = s.val.val])
          [] s.guard = "each" ->
                IF s.id \notin present THEN Ok(d)
                ELSE Ok([d EXCEPT ![s.id][s.field] = s.val.val])
          [] OTHER ->
                IF rs = "undeclared" THEN Throw(d, ReferenceErr)
                ELSE IF rs = "null" THEN Ok(d)
                ELSE IF s.guard = "img" /\ target \notin present THEN Ok(d)
                ELSE IF s.val.err # NoErr THEN Throw(d, s.val.err)
                ELSE Ok([d EXCEPT ![target][s.field] = Flip(@)])

Step(init, s, d) ==
    LET rs     == RefStateAt(init, s.id)
        target == IF s.guard = "img" THEN ImgOf(s.id) ELSE s.id
    IN  CASE s.guard = "always" ->
                IF s.val.err # NoErr THEN Throw(d, s.val.err)
                ELSE Ok([d EXCEPT ![s.id][s.field] = s.val.val])
          [] s.guard = "each" ->
                IF s.id \notin present THEN Ok(d)
                ELSE Ok([d EXCEPT ![s.id][s.field] = s.val.val])
          [] OTHER ->
                IF rs = "undeclared" THEN Throw(d, ReferenceErr)
                ELSE IF rs = "null" THEN Ok(d)
                ELSE IF s.guard = "img" /\ target \notin present THEN Ok(d)
                ELSE IF s.val.err # NoErr THEN Throw(d, s.val.err)
                ELSE Ok([d EXCEPT ![target][s.field] = s.val.val])

\* Statements run in the written order; the first error ends the function.
RECURSIVE Run(_, _, _)
Run(init, stmts, r) ==
    IF stmts = <<>> \/ r.err # NoErr THEN r
    ELSE Run(init, Tail(stmts), Step(init, Head(stmts), r.dom))

-----------------------------------------------------------------------------
(* UIBinder: initElements, setupEventListeners and the two render functions *)

\* currentUser.email || 'Нет email'   (the sidebar controller asks t() for it)
EmailText(user) ==
    IF EmailOf(user) # "" THEN Lit(EmailOf(user))
    ELSE IF variant = "sidebar" THEN T("auth.noEmail", NoEmailLiteral)
    ELSE Lit(NoEmailLiteral)

\* currentUser.user_metadata?.avatar_url || <default asset of the controller>
AvatarUrl(user) ==
    Lit(IF AvatarOf(user) # "" THEN AvatarOf(user) ELSE DefaultAvatar(variant))

AuthenticatedStmts(user) ==
    CASE variant = "basic" ->
            << Stmt("elem", UserAvatar, "display", Lit("flex")),
               Stmt("elem", LoginButton, "display", Lit("none")),
               Stmt("elem", ProfileEmail, "text", EmailText(user)),
               Stmt("elem", ProfileAvatar, "src", AvatarUrl(user)),
               Stmt("img", UserAvatar, "src", AvatarUrl(user)) >>
      [] variant = "mobile" ->
            << Stmt("elem", UserAvatar, "display", Lit("flex")),
               Stmt("elem", MobileUserAvatar, "display", Lit("flex")),
               Stmt("elem", LoginButton, "display", Lit("none")),
               Stmt("elem", MobileLoginButton, "display", Lit("none")),
               Stmt("elem", ProfileEmail, "text", EmailText(user)),
               Stmt("elem", ProfileAvatar, "src", AvatarUrl(user)),
               Stmt("img", UserAvatar, "src", AvatarUrl(user)),
               Stmt("img", MobileUserAvatar, "src", AvatarUrl(user)) >>
      [] variant = "sidebar" ->
            << Stmt("elem", ProfileEmail, "text", EmailText(user)),
               Stmt("elem", SidebarEmail, "text", EmailText(user)),
               Stmt("elem", MobileSidebarEmail, "text", EmailText(user)),
               Stmt("elem", ProfileAvatar, "src", AvatarUrl(user)),
               Stmt("img", SidebarUser, "src", AvatarUrl(user)),
               Stmt("img", MobileSidebarUser, "src", AvatarUrl(user)) >>

UnauthenticatedStmts ==
    CASE variant = "basic" ->
            << Stmt("elem", UserAvatar, "display", Lit("none")),
               Stmt("elem", LoginButton, "display", Lit("flex")) >>
      [] variant = "mobile" ->
            << Stmt("elem", UserAvatar, "display", Lit("none")),
               Stmt("elem", MobileUserAvatar, "display", Lit("none")),
               Stmt("elem", LoginButton, "display", Lit("flex")),
               Stmt("elem", MobileLoginButton, "display", Lit("flex")) >>
      [] variant = "sidebar" ->
            << Stmt("elem", SidebarEmail, "text", T("auth.login", LoginLiteral)),
               Stmt("elem", MobileSidebarEmail, "text", T("auth.login", LoginLiteral)),
               Stmt("img", SidebarUser, "src", Lit(DefaultAvatar(variant))),
               Stmt("img", MobileSidebarUser, "src", Lit(DefaultAvatar(variant))) >>

\* if (!currentUser) return; then every statement in order
updateUIForAuthenticatedUser(user, d) ==
    IF user = Null THEN Ok(d)
    ELSE Run(elementsInit, AuthenticatedStmts(user), Ok(d))

updateUIForUnauthenticatedUser(d) ==
    Run(elementsInit, UnauthenticatedStmts, Ok(d))

ListenerStmts ==
    CASE variant = "basic" ->
            << Stmt("elem", UserAvatar, "click", Lit("openProfileModal")),
               Stmt("each", CloseButton, "click", Lit("closeProfileModal")),
               Stmt("always", Window, "click", Lit("closeIfBackdrop")),
               Stmt("elem", LogoutButton, "click", Lit("logout")),
               Stmt("elem", LoginButton, "click", Lit("redirectToLogin")) >>
      [] variant = "mobile" ->
            << Stmt("elem", UserAvatar, "click", Lit("openProfileModal")),
               Stmt("elem", MobileUserAvatar, "click", Lit("openProfileModal")),
               Stmt("each", CloseButton, "click", Lit("closeProfileModal")),
               Stmt("always", Window, "click", Lit("closeIfBackdrop")),
               Stmt("elem", LogoutButton, "click", Lit("logout")),
               Stmt("elem", LoginButton, "click", Lit("redirectToLogin")),
               Stmt("elem", MobileLoginButton, "click", Lit("redirectToLogin")) >>
      [] variant = "sidebar" ->
            << Stmt("elem", SidebarUser, "click", Lit("openProfileModal")),
               Stmt("elem", MobileSidebarUser, "click", Lit("openProfileModal")),
               Stmt("each", CloseButton, "click", Lit("closeProfileModal")),
               Stmt("always", Window, "click", Lit("closeIfBackdrop")),
               Stmt("elem", LogoutButton, "click", Lit("logout")) >>

\* setupEventListeners runs right after initElements, in the same handler.
setupEventListeners(d) == Run(TRUE, ListenerStmts, Ok(d))

-----------------------------------------------------------------------------
(* ModalCoordinator: openProfileModal, closeProfileModal and their timers *)

\* The browser fires timers in the order of their due times.  A new timer is
\* due after every pending timer whose delay is not longer than its own; it
\* may be due before or after a pending timer with a longer delay, depending
\* on how long ago that one was set.
TimerPositions(q, delay) ==
    { p \in 1..(Len(q) + 1) : \A i \in 1..Len(q) : q[i].delay <= delay => i < p }

SetTimeout(q, p, cb, delay) ==
    SubSeq(q, 1, p - 1) \o << [cb |-> cb, delay |-> delay] >> \o SubSeq(q, p, Len(q))

\* Result of a modal call: the DOM, the timer queue and the error raised.
ModalOk(d, q)       == [dom |-> d, timers |-> q, err |-> NoErr]
ModalThrow(d, q, e) == [dom |-> d, timers |-> q, err |-> e]

\* Faulty variant of openProfileModal: 'active' is added at once, with no
\* timer.
openProfileModalEager(d, q, p) ==
    IF RefStateAt(elementsInit, ProfileModal) = "elem"
    THEN ModalOk([d EXCEPT ![ProfileModal].display = "block",
                           ![ProfileModal].active = TRUE], q)
    ELSE ModalOk(d, q)

openProfileModal(d, q, p) ==
    IF RefStateAt(elementsInit, ProfileModal) = "elem"
    THEN ModalOk([d EXCEPT ![ProfileModal].display = "block"],
                 SetTimeout(q, p, "addActive", OpenDelayMs))
    ELSE ModalOk(d, q)

closeProfileModal(d, q, p) ==
    IF RefStateAt(elementsInit, ProfileModal) = "elem"
    THEN ModalOk([d EXCEPT ![ProfileModal].active = FALSE],
                 SetTimeout(q, p, "hide", CloseDelayMs))
    ELSE ModalOk(d, q)

\* Faulty variant of closeIfBackdrop: the click target is not looked at.
closeIfBackdropAnyTarget(target, d, q, p) ==
    IF RefStateAt(elementsInit, ProfileModal) = "elem"
    THEN closeProfileModal(d, q, p)
    ELSE ModalOk(d, q)

\* The window click listener: `if (event.target === profileModal)
\* closeProfileModal()`.
closeIfBackdrop(target, d, q, p) ==
    IF target = ProfileModal /\ RefStateAt(elementsInit, ProfileModal) = "elem"
    THEN closeProfileModal(d, q, p)
    ELSE ModalOk(d, q)

\* Positions a modal call may put its timer at (one choice when it sets none).
OpenPositions(q) ==
    IF RefStateAt(elementsInit, ProfileModal) = "elem"
    THEN TimerPositions(q, OpenDelayMs) ELSE {1}

ClosePositions(q) ==
    IF RefStateAt(elementsInit, ProfileModal) = "elem"
    THEN TimerPositions(q, CloseDelayMs) ELSE {1}

\* The callback of a timer.
TimerCallback(cb, d) ==
    CASE cb = "addActive" -> [d EXCEPT ![ProfileModal].active = TRUE]
      [] cb = "hide"      -> [d EXCEPT ![ProfileModal].display = "none"]

-----------------------------------------------------------------------------
(* Initial states: the script has loaded, DOMContentLoaded has not fired *)

InitOn(variants, pages, i18ns) ==
    /\ variant \in variants
    /\ present \in pages[variant]
    /\ i18n \in i18ns
    /\ elementsInit = FALSE
    /\ currentUser = Null
    /\ dom = [id \in AllIds |-> Markup]
    /\ supabaseClient = 0
    /\ winClient = 0
    /\ created = 0
    /\ dcl = "idle"
    /\ checks = 0
    /\ logouts = << >>
    /\ chat = << >>
    /\ ops = << >>
    /\ timers = << >>
    /\ location = "page"
    /\ log = {}
    /\ op = [name |-> "load", arg |-> ""]
    /\ raised = {}
    /\ response = "none"
    /\ checked = FALSE
    /\ lastModal = "none"

\* Every step records itself: its name and argument, the errors it raised,
\* and what the later claims ask of the past: the answer to the controller's
\* `fetch('/api/auth/config')`, whether a checkAuth call has completed, and
\* which of openProfileModal / closeProfileModal was called last with the
\* dialog element looked up (the basic controller's logout calls
\* closeProfileModal when signOut succeeds).
Hist(name, arg, errs) ==
    /\ op' = [name |-> name, arg |-> arg]
    /\ raised' = errs
    /\ response' = IF name = "DCLFetchDone" THEN arg ELSE response
    /\ checked' = (checked \/ name = "checkAuth")
    /\ lastModal' =
          IF RefStateAt(elementsInit, ProfileModal) # "elem" THEN lastModal
          ELSE IF name = "openProfileModal" THEN "open"
          ELSE IF name = "closeProfileModal" THEN "close"
          ELSE IF name = "logoutDone" /\ arg = "ok" /\ variant = "basic" THEN "close"
          ELSE lastModal

Errs(e) == IF e = NoErr THEN {} ELSE {e}

-----------------------------------------------------------------------------
(* SessionController: checkAuth *)

\* The catch block of checkAuth: console.error(<message>, error), then
\* updateUIForUnauthenticatedUser().  The sidebar controller builds the
\* message with t(), which raises when the translation module is unavailable.
CheckAuthCatch(d, before) ==
    IF variant = "sidebar" /\ T("auth.errorCheckAuth", "").err # NoErr
    THEN [dom |-> d, logged |-> {}, raised |-> before \cup {I18nErr}, rejected |-> TRUE]
    ELSE LET r == updateUIForUnauthenticatedUser(d)
         IN  [dom |-> r.dom, logged |-> {"errorCheckAuth"},
              raised |-> before \cup Errs(r.err), rejected |-> r.err # NoErr]

\* checkAuth after `await supabaseClient.auth.getSession()` has settled.
\* outcome: "session" (data.session set, no error), "nosession", "error"
\* (an error returned) or "reject" (the promise rejected).
\* Faulty variant of CheckAuthBody: the user is stored before the session is
\* looked at, so a check that finds no session signs the user in.
CheckAuthBodyStoresFirst(outcome, user, d) ==
    IF outcome \in {"session", "nosession"}
    THEN LET r == updateUIForAuthenticatedUser(user, d)
         IN  [dom |-> r.dom, user |-> user, logged |-> {}, raised |-> Errs(r.err),
              rejected |-> FALSE]
    ELSE [user |-> currentUser] @@ CheckAuthCatch(d, {})

CheckAuthBody(outcome, user, d) ==
    IF outcome = "session"
    THEN LET r == updateUIForAuthenticatedUser(user, d)
         IN  IF r.err = NoErr
             THEN [dom |-> r.dom, user |-> user, logged |-> {}, raised |-> {},
                   rejected |-> FALSE]
             ELSE [user |-> user] @@ CheckAuthCatch(r.dom, {r.err})
    ELSE IF outcome = "nosession"
    THEN LET r == updateUIForUnauthenticatedUser(d)
         IN  IF r.err = NoErr
             THEN [dom |-> r.dom, user |-> currentUser, logged |-> {}, raised |-> {},
                   rejected |-> FALSE]
             ELSE [user |-> currentUser] @@ CheckAuthCatch(r.dom, {r.err})
    ELSE [user |-> currentUser] @@ CheckAuthCatch(d, {})

\* checkAuth() up to its first suspension point.  With no client yet,
\* `supabaseClient.auth` raises inside the try and the catch block runs.
CheckAuthCall ==
    /\ IF supabaseClient = 0
       THEN LET c == CheckAuthCatch(dom, {})
            IN  /\ dom' = c.dom
                /\ log' = log \cup c.logged
                /\ Hist("checkAuth", "noclient", c.raised)
                /\ UNCHANGED checks
       ELSE /\ checks < MaxChecks
            /\ checks' = checks + 1
            /\ Hist("checkAuthCall", "", {})
            /\ UNCHANGED <<dom, log>>
    /\ UNCHANGED <<variant, present, ops, i18n, elementsInit, currentUser, supabaseClient,
                   winClient, created, dcl, logouts, chat, timers, location>>

CheckAuthResume(outcome, user) ==
    /\ checks > 0
    /\ LET c == CheckAuthBody(outcome, user, dom)
       IN  /\ dom' = c.dom
           /\ currentUser' = c.user
           /\ log' = log \cup c.logged
           /\ Hist("checkAuth", outcome, c.raised)
    /\ checks' = checks - 1
    /\ UNCHANGED <<variant, present, ops, i18n, elementsInit, supabaseClient, winClient,
                   created, dcl, logouts, chat, timers, location>>

-----------------------------------------------------------------------------
(* The DOMContentLoaded handler *)

\* basic and mobile controllers: one synchronous handler.
DOMContentLoaded ==
    /\ dcl = "idle"
    /\ variant \in {"basic", "mobile"}
    /\ created < MaxClients
    /\ created' = created + 1
    /\ supabaseClient' = created + 1
    /\ elementsInit' = TRUE
    /\ checks' = checks + 1
    /\ dom' = setupEventListeners(dom).dom
    /\ dcl' = "done"
    /\ Hist("DOMContentLoaded", "", Errs(setupEventListeners(dom).err))
    /\ UNCHANGED <<variant, present, ops, i18n, currentUser, winClient, logouts, chat,
                   timers, location, log>>

\* sidebar controller: `if (window.i18nModule && !window.i18next) await initI18n()`,
\* then the configuration fetch is issued.
DCLStart ==
    /\ dcl = "idle"
    /\ variant = "sidebar"
    /\ dcl' = IF i18n = "unloaded" THEN "i18n" ELSE "fetch"
    /\ Hist("DCLStart", "", {})
    /\ UNCHANGED <<variant, present, ops, i18n, elementsInit, currentUser, dom,
                   supabaseClient, winClient, created, checks, logouts, chat, timers,
                   location, log>>

\* initI18n() settles.  Its await is outside the try block: when it rejects
\* the handler ends there.
DCLI18nDone(ok) ==
    /\ dcl = "i18n"
    /\ i18n' = IF ok THEN "ready" ELSE i18n
    /\ dcl' = IF ok THEN "fetch" ELSE "rejected"
    /\ Hist("DCLI18nDone", IF ok THEN "ok" ELSE "reject", {})
    /\ UNCHANGED <<variant, present, ops, elementsInit, currentUser, dom, supabaseClient,
                   winClient, created, checks, logouts, chat, timers, location, log>>

\* The catch block of the handler: console.error(t('auth.errorConfig', ...), error).
DCLCatch(why) ==
    /\ dcl' = "failed"
    /\ IF T("auth.errorConfig", "").err # NoErr
       THEN /\ Hist("DCLCatch", why, {I18nErr})
            /\ UNCHANGED log
       ELSE /\ Hist("DCLCatch", why, {})
            /\ log' = log \cup {"errorConfig"}

\* fetch('/api/auth/config') settles: "reject" (network failure) or a
\* response; the status of the response is not looked at.
DCLFetchDone(resp) ==
    /\ dcl = "fetch"
    /\ IF resp = "reject"
       THEN DCLCatch("fetch")
       ELSE /\ dcl' = "json"
            /\ Hist("DCLFetchDone", resp, {})
            /\ UNCHANGED log
    /\ UNCHANGED <<variant, present, ops, i18n, elementsInit, currentUser, dom,
                   supabaseClient, winClient, created, checks, logouts, chat, timers,
                   location>>

\* response.json() settles: "config" (both parameters), "unparsable" (json()
\* rejects) or "noconfig" (a JSON body without the parameters, as an error
\* response has).  createClient(undefined, undefined) is the library's to
\* decide: it raises or builds a handle (throws).
DCLJsonDone(body, throws) ==
    /\ dcl = "json"
    /\ body = "config" => ~throws
    /\ IF body = "unparsable" \/ throws
       THEN /\ DCLCatch(body)
            /\ UNCHANGED <<elementsInit, dom, supabaseClient, winClient, created, checks>>
       ELSE /\ created < MaxClients
            /\ checks < MaxChecks
            /\ created' = created + 1
            /\ supabaseClient' = created + 1
            /\ winClient' = created + 1
            /\ elementsInit' = TRUE
            /\ checks' = checks + 1
            /\ dom' = setupEventListeners(dom).dom
            /\ dcl' = "done"
            /\ Hist("DCLJsonDone", body, Errs(setupEventListeners(dom).err))
            /\ UNCHANGED log
    /\ UNCHANGED <<variant, present, ops, i18n, currentUser, logouts, chat, timers, location>>

-----------------------------------------------------------------------------
(* SessionController: logout and redirectToLogin *)

\* A logout call: whether a user was signed in when it was made, where it is
\* suspended, how its two requests ended ("none" = never issued), the
\* diagnostics it logged, whether it cleared currentUser and whether it
\* navigated.
NewLogout ==
    [authed |-> currentUser # Null, pc |-> "start", server |-> "none",
     signOut |-> "none", diag |-> << >>, cleared |-> FALSE, nav |-> FALSE]

\* The catch block of logout: console.error(<message>, error).
LogoutCatch(l) ==
    IF variant = "sidebar" /\ T("auth.errorLogout", "").err # NoErr
    THEN [l EXCEPT !.pc = "done"]
    ELSE [l EXCEPT !.pc = "done", !.diag = Append(@, "errorLogout")]

\* `supabaseClient.auth.signOut()` is issued; with no client the property
\* access raises inside the try.
IssueSignOut(l) ==
    IF supabaseClient = 0 THEN LogoutCatch(l)
    ELSE [l EXCEPT !.pc = "signOut", !.signOut = "pending"]

\* logout() up to its first suspension point: the basic controller goes
\* straight to signOut, the others first POST /api/auth/logout.
LogoutStart ==
    IF variant = "basic" THEN IssueSignOut(NewLogout)
    ELSE [NewLogout EXCEPT !.pc = "fetch", !.server = "pending"]

LogoutCall(via) ==
    /\ Len(logouts) < MaxLogouts
    /\ \/ via = "authModule"
       \/ /\ via = LogoutButton
          /\ via \in present
          /\ dom[via].click = "logout"
    /\ logouts' = Append(logouts, LogoutStart)
    /\ Hist("logoutCall", via, {})
    /\ UNCHANGED <<variant, present, ops, i18n, elementsInit, currentUser, dom,
                   supabaseClient, winClient, created, dcl, checks, chat, timers,
                   location, log>>

\* fetch('/api/auth/logout') settles: "reject" (network failure), or a
\* response ("2xx", "non2xx") whose status and body are not looked at.
LogoutAfterFetch(l, resp) ==
    IF resp = "reject" THEN LogoutCatch([l EXCEPT !.server = resp])
    ELSE IssueSignOut([l EXCEPT !.server = resp])

LogoutFetchDone(i, resp) ==
    /\ i \in 1..Len(logouts)
    /\ logouts[i].pc = "fetch"
    /\ logouts' = [logouts EXCEPT ![i] = LogoutAfterFetch(@, resp)]
    /\ Hist("logoutFetchDone", resp, {})
    /\ UNCHANGED <<variant, present, ops, i18n, elementsInit, currentUser, dom,
                   supabaseClient, winClient, created, dcl, checks, chat, timers,
                   location, log>>

\* signOut() settles: "ok", "error" (an error returned, which logout throws)
\* or "reject".  On "ok" the basic controller clears currentUser, renders and
\* closes the profile dialog; the others clear it and navigate to /auth.
LogoutSignOutDone(i, res) ==
    /\ i \in 1..Len(logouts)
    /\ logouts[i].pc = "signOut"
    /\ LET l == [logouts[i] EXCEPT !.signOut = res]
       IN  IF res # "ok"
           THEN /\ logouts' = [logouts EXCEPT ![i] = LogoutCatch(l)]
                /\ UNCHANGED <<currentUser, dom, timers, location>>
           ELSE IF variant = "basic"
           THEN \E p \in ClosePositions(timers) :
                  LET r == updateUIForUnauthenticatedUser(dom)
                      m == closeProfileModal(r.dom, timers, p)
                  IN  /\ currentUser' = Null
                      /\ Len(m.timers) <= MaxTimers
                      /\ dom' = m.dom
                      /\ timers' = m.timers
                      /\ logouts' = [logouts EXCEPT ![i] =
                                       [l EXCEPT !.pc = "done", !.cleared = TRUE]]
                      /\ UNCHANGED location
           ELSE /\ currentUser' = Null
                /\ location' = "/auth"
                /\ logouts' = [logouts EXCEPT ![i] =
                                 [l EXCEPT !.pc = "done", !.cleared = TRUE, !.nav = TRUE]]
                /\ UNCHANGED <<dom, timers>>
    /\ Hist("logoutDone", res, {})
    /\ UNCHANGED <<variant, present, ops, i18n, elementsInit, supabaseClient, winClient,
                   created, dcl, checks, chat, log>>

\* Faulty variant of RedirectToLogin: it also drops the session state.
RedirectToLoginSignsOut(via) ==
    /\ via = "authModule"
    /\ location' = "/auth"
    /\ currentUser' = Null
    /\ Hist("redirectToLogin", via, {})
    /\ UNCHANGED <<variant, present, ops, i18n, elementsInit, dom, supabaseClient,
                   winClient, created, dcl, checks, logouts, chat, timers, log>>

\* redirectToLogin(): window.location.href = '/auth'
RedirectToLogin(via) ==
    /\ \/ via = "authModule"
       \/ /\ via \in {LoginButton, MobileLoginButton} \cap present
          /\ dom[via].click = "redirectToLogin"
          /\ dom[via].display # "none"
    /\ location' = "/auth"
    /\ Hist("redirectToLogin", via, {})
    /\ UNCHANGED <<variant, present, ops, i18n, elementsInit, currentUser, dom,
                   supabaseClient, winClient, created, dcl, checks, logouts, chat,
                   timers, log>>

-----------------------------------------------------------------------------
(* ModalCoordinator actions: calls, clicks and timers *)

ModalShown == ProfileModal \in present /\ dom[ProfileModal].display = "block"

\* openProfileModal, called through window.authModule or by a click on an
\* avatar block (or on the <img> inside it, which bubbles to the block).
OpenProfileModal(via, p) ==
    /\ \/ via = "authModule"
       \/ /\ via \in AvatarBlocks(variant) \cap present
          /\ dom[via].click = "openProfileModal"
          /\ dom[via].display # "none"
    /\ p \in OpenPositions(timers)
    /\ LET m == openProfileModal(dom, timers, p)
       IN  /\ Len(m.timers) <= MaxTimers
           /\ dom' = m.dom
           /\ timers' = m.timers
           /\ Hist("openProfileModal", via, Errs(m.err))
    /\ UNCHANGED <<variant, present, ops, i18n, elementsInit, currentUser, supabaseClient,
                   winClient, created, dcl, checks, logouts, chat, location, log>>

\* closeProfileModal, called through window.authModule, by a click on a
\* .close-modal control, or by the window click listener when the click
\* target is the modal element itself (the backdrop).
CloseProfileModal(via, p) ==
    /\ \/ via = "authModule"
       \/ /\ via = CloseButton
          /\ via \in present
          /\ dom[via].click = "closeProfileModal"
          /\ ModalShown
       \/ /\ via = ProfileModal
          /\ dom[Window].click = "closeIfBackdrop"
          /\ RefStateAt(elementsInit, ProfileModal) = "elem"
          /\ ModalShown
    /\ p \in ClosePositions(timers)
    /\ LET m == IF via = ProfileModal
                THEN closeIfBackdrop(via, dom, timers, p)
                ELSE closeProfileModal(dom, timers, p)
       IN  /\ Len(m.timers) <= MaxTimers
           /\ dom' = m.dom
           /\ timers' = m.timers
           /\ Hist("closeProfileModal", via, Errs(m.err))
    /\ UNCHANGED <<variant, present, ops, i18n, elementsInit, currentUser, supabaseClient,
                   winClient, created, dcl, checks, logouts, chat, location, log>>

\* A click inside the dialog content: no element listener, and the event
\* bubbles to the window listener with the content element as its target.
ClickModalContent ==
    /\ ModalShown
    /\ LET m == IF dom[Window].click = "closeIfBackdrop"
                THEN closeIfBackdrop(ModalContent, dom, timers, Len(timers) + 1)
                ELSE ModalOk(dom, timers)
       IN  /\ Len(m.timers) <= MaxTimers
           /\ dom' = m.dom
           /\ timers' = m.timers
           /\ Hist("click", ModalContent, Errs(m.err))
    /\ UNCHANGED <<variant, present, ops, i18n, elementsInit, currentUser, supabaseClient,
                   winClient, created, dcl, checks, logouts, chat, location, log>>

\* The timer that is due first fires.
TimerFire ==
    /\ timers # << >>
    /\ dom' = TimerCallback(Head(timers).cb, dom)
    /\ timers' = Tail(timers)
    /\ Hist("timer", Head(timers).cb, {})
    /\ UNCHANGED <<variant, present, ops, i18n, elementsInit, currentUser, supabaseClient,
                   winClient, created, dcl, checks, logouts, chat, location, log>>

-----------------------------------------------------------------------------
(* ConfigLoader: chatService.init *)

\* An init call: where it is suspended, the polls it has slept through, the
\* configuration fetches it issued and how the last was answered, the
\* createClient calls it made, and what it returned.
NewChatInit ==
    [pc |-> "start", i |-> 0, fetches |-> 0, status |-> "none", built |-> 0,
     result |-> "none"]

\* init() up to its first suspension point: with a shared client present it
\* returns true at once, else it starts the first 100 ms sleep.
ChatInitCall ==
    /\ Len(chat) < MaxChat
    /\ chat' = Append(chat,
                 IF winClient # 0
                 THEN [NewChatInit EXCEPT !.pc = "done", !.result = "true"]
                 ELSE [NewChatInit EXCEPT !.pc = "poll"])
    /\ Hist("chatInitCall", "", {})
    /\ UNCHANGED <<variant, present, ops, i18n, elementsInit, currentUser, dom,
                   supabaseClient, winClient, created, dcl, checks, logouts, timers,
                   location, log>>

\* Faulty variant of ChatAfterSleep: the fetch is issued after the first
\* poll that finds no client.
ChatAfterSleepImpatient(c) ==
    IF winClient # 0
    THEN [c EXCEPT !.pc = "done", !.result = "true"]
    ELSE [c EXCEPT !.i = @ + 1, !.pc = "fetch", !.fetches = @ + 1]

\* Faulty variant of ChatAfterSleep: the loop has no bound (the counter stops
\* before the limit, as `i` would with the `i++` left out).
ChatAfterSleepUnbounded(c) ==
    IF winClient # 0
    THEN [c EXCEPT !.pc = "done", !.result = "true"]
    ELSE [c EXCEPT !.i = IF @ + 1 < MaxPolls THEN @ + 1 ELSE @]

\* One sleep of the polling loop ends: break when the client is there, else
\* i++ and either sleep again or leave the loop and issue the fetch.
ChatAfterSleep(c) ==
    IF winClient # 0
    THEN [c EXCEPT !.pc = "done", !.result = "true"]
    ELSE IF c.i + 1 < MaxPolls
    THEN [c EXCEPT !.i = @ + 1]
    ELSE [c EXCEPT !.i = @ + 1, !.pc = "fetch", !.fetches = @ + 1]

ChatPoll(k) ==
    /\ k \in 1..Len(chat)
    /\ chat[k].pc = "poll"
    /\ chat' = [chat EXCEPT ![k] = ChatAfterSleep(@)]
    /\ Hist("chatPoll", "", {})
    /\ UNCHANGED <<variant, present, ops, i18n, elementsInit, currentUser, dom,
                   supabaseClient, winClient, created, dcl, checks, logouts, timers,
                   location, log>>

\* fetch('/api/auth/config') of init settles.
ChatFetchDone(k, resp) ==
    /\ k \in 1..Len(chat)
    /\ chat[k].pc = "fetch"
    /\ chat' = [chat EXCEPT ![k] =
                  IF resp = "reject"
                  THEN [@ EXCEPT !.pc = "done", !.status = resp, !.result = "false"]
                  ELSE [@ EXCEPT !.pc = "json", !.status = resp]]
    /\ log' = IF resp = "reject" THEN log \cup {"chat.errorInit"} ELSE log
    /\ Hist("chatFetchDone", resp, {})
    /\ UNCHANGED <<variant, present, ops, i18n, elementsInit, currentUser, dom,
                   supabaseClient, winClient, created, dcl, checks, logouts, timers,
                   location>>

\* response.json() of init settles; window.supabaseClient is assigned the
\* new handle without looking at it again.
ChatJsonDone(k, body, throws) ==
    /\ k \in 1..Len(chat)
    /\ chat[k].pc = "json"
    /\ body = "config" => ~throws
    /\ IF body = "unparsable" \/ throws
       THEN /\ chat' = [chat EXCEPT ![k] = [@ EXCEPT !.pc = "done", !.result = "false"]]
            /\ log' = log \cup {"chat.errorInit"}
            /\ UNCHANGED <<winClient, created>>
       ELSE /\ created < MaxClients
            /\ created' = created + 1
            /\ winClient' = created + 1
            /\ chat' = [chat EXCEPT ![k] =
                          [@ EXCEPT !.pc = "done", !.result = "true", !.built = @ + 1]]
            /\ UNCHANGED log
    /\ Hist("chatJsonDone", body, {})
    /\ UNCHANGED <<variant, present, ops, i18n, elementsInit, currentUser, dom,
                   supabaseClient, dcl, checks, logouts, timers, location>>

-----------------------------------------------------------------------------
(* chatService data operations, src/static/js/chat-service.js 34-170 *)

ChatFns == {"getChatSessions", "createChatSession", "updateChatSession",
            "getChatMessages", "addChatMessage", "deleteChatSession"}

\* The arguments that change the path of a call: createChatSession's title
\* (null by default), addChatMessage's isUser and whether message is a string.
OpArgs(fn) ==
    CASE fn = "createChatSession" -> {"title", "null"}
      [] fn = "addChatMessage"    -> {"user", "bot", "userNonString"}
      [] OTHER                    -> {"-"}

\* What supabase.auth.getUser() and a table query settle with: auth.getUser
\* gives a user, no user, an error field or a rejection; a query gives data,
\* neither data nor error, an error field or a rejection.
AuthOutcomes  == {"user", "nouser", "error", "reject"}
QueryOutcomes == {"data", "nodata", "error", "reject"}

\* The table query of each operation; addChatMessage starts with its insert.
TableQuery(fn) ==
    CASE fn = "getChatSessions"   -> "chat_sessions.select"
      [] fn = "createChatSession" -> "chat_sessions.insert"
      [] fn = "updateChatSession" -> "chat_sessions.update"
      [] fn = "getChatMessages"   -> "chat_messages.select"
      [] fn = "addChatMessage"    -> "chat_messages.insert"
      [] fn = "deleteChatSession" -> "chat_sessions.delete"

\* The value each catch block returns.
Fallback(fn) ==
    CASE fn \in {"getChatSessions", "getChatMessages"} -> "empty"
      [] fn \in {"createChatSession", "updateChatSession", "addChatMessage"} -> "null"
      [] fn = "deleteChatSession" -> "false"

NewOp(fn, arg) ==
    [fn |-> fn, arg |-> arg, pc |-> "start", issued |-> << >>, results |-> << >>,
     ret |-> "none", caught |-> FALSE, threw |-> FALSE]

\* A request leaves and the call suspends at its await.
OpIssue(o, q, pc) == [o EXCEPT !.issued = Append(@, q), !.pc = pc]

OpReturn(o, v) == [o EXCEPT !.pc = "done", !.ret = v]

\* Faulty variant of OpCatch: the catch block logs and rethrows.
OpCatchRethrows(o) == [o EXCEPT !.pc = "done", !.caught = TRUE, !.threw = TRUE]

\* The catch block of an operation: console.error with a literal message,
\* then the operation's fallback value.
OpCatch(o) == [o EXCEPT !.pc = "done", !.caught = TRUE, !.ret = Fallback(o.fn)]

\* The synchronous start of an operation, up to its first await. Reading
\* .auth or .from of an absent window.supabaseClient raises inside the try.
OpStart(fn, arg) ==
    LET o == NewOp(fn, arg) IN
    IF winClient = 0 THEN OpCatch(o)
    ELSE IF fn \in {"getChatSessions", "createChatSession"}
         THEN OpIssue(o, "auth.getUser", "getUser")
    ELSE IF fn = "addChatMessage"
         THEN OpIssue(o, TableQuery(fn), "insert")
    ELSE OpIssue(o, TableQuery(fn), "query")

\* getChatSessions and createChatSession after auth.getUser settles.
OpAfterGetUser(o, res) ==
    LET p == [o EXCEPT !.results = Append(@, res)] IN
    IF res # "user" THEN OpCatch(p)
    ELSE IF p.fn = "createChatSession" /\ p.arg = "null"
            /\ T("chat.new", "chat.new").err # NoErr
         THEN OpCatch(p)
    ELSE OpIssue(p, TableQuery(p.fn), "query")

\* An operation after its table query settles.
OpAfterQuery(o, res) ==
    LET p == [o EXCEPT !.results = Append(@, res)] IN
    IF res \in {"error", "reject"} THEN OpCatch(p)
    ELSE CASE p.fn \in {"getChatSessions", "getChatMessages"} ->
                  OpReturn(p, IF res = "data" THEN "data" ELSE "empty")
           [] p.fn \in {"createChatSession", "updateChatSession"} ->
                  OpReturn(p, IF res = "data" THEN "data" ELSE "null")
           [] p.fn = "deleteChatSession" -> OpReturn(p, "true")

\* Faulty variant of AddAfterInsert: the session update is issued whatever
\* the insert settled with.
AddAfterInsertAlwaysUpdates(o, res) ==
    LET p == [o EXCEPT !.results = Append(@, res)] IN
    IF p.arg = "userNonString" THEN OpCatch(p)
    ELSE OpIssue(p, TableQuery("updateChatSession"), "update")

\* addChatMessage after its insert settles: an error is thrown to the catch
\* block; otherwise the updates object is built (message.substring raises
\* for a message that is no string) and updateChatSession is called, which
\* issues its query and suspends.
AddAfterInsert(o, res) ==
    LET p == [o EXCEPT !.results = Append(@, res)] IN
    IF res \in {"error", "reject"} THEN OpCatch(p)
    ELSE IF p.arg = "userNonString" THEN OpCatch(p)
    ELSE OpIssue(p, TableQuery("updateChatSession"), "update")

\* addChatMessage after updateChatSession settles: updateChatSession catches
\* its own failures and returns null, and addChatMessage returns the data of
\* its insert.
AddAfterUpdate(o, res) ==
    LET p == [o EXCEPT !.results = Append(@, res)] IN
    OpReturn(p, IF p.results[1] = "data" THEN "data" ELSE "null")

OpCall(fn, arg) ==
    /\ Len(ops) < MaxOps
    /\ ops' = Append(ops, OpStart(fn, arg))
    /\ log' = IF OpStart(fn, arg).caught THEN log \cup {"chat.errorOp"} ELSE log
    /\ Hist(fn, arg, {})
    /\ UNCHANGED <<variant, present, i18n, elementsInit, currentUser, dom,
                   supabaseClient, winClient, created, dcl, checks, logouts,
                   chat, timers, location>>

OpSettle(k, pc, next) ==
    /\ k \in 1..Len(ops)
    /\ ops[k].pc = pc
    /\ ops' = [ops EXCEPT ![k] = next]
    /\ log' = IF next.caught THEN log \cup {"chat.errorOp"} ELSE log
    /\ Hist(pc \o "Done", ops[k].fn, {})
    /\ UNCHANGED <<variant, present, i18n, elementsInit, currentUser, dom,
                   supabaseClient, winClient, created, dcl, checks, logouts,
                   chat, timers, location>>

OpGetUserDone(k, res) ==
    /\ k \in 1..Len(ops)
    /\ OpSettle(k, "getUser", OpAfterGetUser(ops[k], res))

OpQueryDone(k, res) ==
    /\ k \in 1..Len(ops)
    /\ OpSettle(k, "query", OpAfterQuery(ops[k], res))

AddInsertDone(k, res) ==
    /\ k \in 1..Len(ops)
    /\ OpSettle(k, "insert", AddAfterInsert(ops[k], res))

AddUpdateDone(k, res) ==
    /\ k \in 1..Len(ops)
    /\ OpSettle(k, "update", AddAfterUpdate(ops[k], res))

-----------------------------------------------------------------------------
(* Specifications *)

SessionOutcomes == {"session", "nosession", "error", "reject"}
Responses       == {"2xx", "non2xx", "reject"}
Bodies          == {"config", "unparsable", "noconfig"}
SignOutResults  == {"ok", "error", "reject"}

AnyUser == CHOOSE u \in Users : TRUE

\* getSession() settles for one suspended checkAuth call.
CheckAuthSettles ==
    \E outcome \in SessionOutcomes, user \in Users :
        /\ outcome # "session" => user = AnyUser
        /\ CheckAuthResume(outcome, user)

PageLoad ==
    \/ DOMContentLoaded
    \/ DCLStart
    \/ \E resp \in Responses : DCLFetchDone(resp)
    \/ \E body \in Bodies, throws \in BOOLEAN : DCLJsonDone(body, throws)

\* Session: the controllers on the shipped page layouts, with the translation
\* module loaded; checkAuth and logout are called at any time, in any number.
Init == InitOn(Variants, [v \in Variants |-> ShippedPages(v)], {"ready"})

Next ==
    \/ PageLoad
    \/ CheckAuthCall
    \/ CheckAuthSettles
    \/ \E via \in {"authModule", LogoutButton} : LogoutCall(via)
    \/ \E i \in 1..MaxLogouts, resp \in Responses : LogoutFetchDone(i, resp)
    \/ \E i \in 1..MaxLogouts, res \in SignOutResults : LogoutSignOutDone(i, res)
    \/ TimerFire

Spec == Init /\ [][Next]_vars

\* Page load of the sidebar controller together with chatService.init: the
\* translation module in any state, every outcome of the configuration fetch.
InitLoad ==
    InitOn({"sidebar"}, [v \in Variants |-> {FullPage(v)}],
           {"ready", "unloaded", "absent"})

NextLoad ==
    \/ DCLStart
    \/ \E ok \in BOOLEAN : DCLI18nDone(ok)
    \/ \E resp \in Responses : DCLFetchDone(resp)
    \/ \E body \in Bodies, throws \in BOOLEAN : DCLJsonDone(body, throws)
    \/ CheckAuthSettles
    \/ ChatInitCall
    \/ \E k \in 1..MaxChat : ChatPoll(k)
    \/ \E k \in 1..MaxChat, resp \in Responses : ChatFetchDone(k, resp)
    \/ \E k \in 1..MaxChat, body \in Bodies, throws \in BOOLEAN :
            ChatJsonDone(k, body, throws)

SpecLoad == InitLoad /\ [][NextLoad]_vars

\* What the event loop guarantees an init call: its 100 ms timer fires, and
\* its configuration fetch and the body read settle.
ChatFairness ==
    \A k \in 1..MaxChat :
        /\ WF_vars(ChatPoll(k))
        /\ WF_vars(\E resp \in Responses : ChatFetchDone(k, resp))
        /\ WF_vars(\E body \in Bodies, throws \in BOOLEAN : ChatJsonDone(k, body, throws))

\* Chat: chatService.init against the controller's startup, translation
\* module loaded, with the fairness above.
InitChat == InitOn({"sidebar"}, [v \in Variants |-> {FullPage(v)}], {"ready"})

NextChat ==
    \/ DCLStart
    \/ \E resp \in Responses : DCLFetchDone(resp)
    \/ \E body \in Bodies, throws \in BOOLEAN : DCLJsonDone(body, throws)
    \/ ChatInitCall
    \/ \E k \in 1..MaxChat : ChatPoll(k)
    \/ \E k \in 1..MaxChat, resp \in Responses : ChatFetchDone(k, resp)
    \/ \E k \in 1..MaxChat, body \in Bodies, throws \in BOOLEAN :
            ChatJsonDone(k, body, throws)

SpecChat == InitChat /\ [][NextChat]_vars /\ ChatFairness

\* The chatService data operations on a sidebar page, called at any moment
\* of the page load, with and without the i18n module.
InitOps == InitOn({"sidebar"}, [v \in Variants |-> {FullPage(v)}], {"ready", "absent"})

NextOps ==
    \/ DCLStart
    \/ \E resp \in Responses : DCLFetchDone(resp)
    \/ \E body \in Bodies, throws \in BOOLEAN : DCLJsonDone(body, throws)
    \/ CheckAuthSettles
    \/ \E fn \in ChatFns : \E arg \in OpArgs(fn) : OpCall(fn, arg)
    \/ \E k \in 1..MaxOps, res \in AuthOutcomes : OpGetUserDone(k, res)
    \/ \E k \in 1..MaxOps, res \in QueryOutcomes : OpQueryDone(k, res)
    \/ \E k \in 1..MaxOps, res \in QueryOutcomes : AddInsertDone(k, res)
    \/ \E k \in 1..MaxOps, res \in QueryOutcomes : AddUpdateDone(k, res)

SpecOps == InitOps /\ [][NextOps]_vars

\* Every controller on every page (any subset of its optional surfaces).
InitSurfaces == InitOn(Variants, [v \in Variants |-> Pages(v)], {"ready"})

ModalCalls ==
    \/ \E via \in {"authModule"} \cup AvatarBlocks(variant), p \in 1..(MaxTimers + 1) :
            OpenProfileModal(via, p)
    \/ \E via \in {"authModule", CloseButton, ProfileModal}, p \in 1..(MaxTimers + 1) :
            CloseProfileModal(via, p)
    \/ ClickModalContent
    \/ TimerFire

\* Render: page load and any sequence of session checks, on every page.
NextRender ==
    \/ PageLoad
    \/ CheckAuthCall
    \/ CheckAuthSettles

SpecRender == InitSurfaces /\ [][NextRender]_vars

\* Surfaces: page load, session checks with and without a session, and the
\* profile dialog opened and closed through window.authModule and through
\* the click listeners, each call made when nothing else is pending.
NextSurfaces ==
    \/ PageLoad
    \/ CheckAuthCall
    \/ \E outcome \in {"session", "nosession"} : CheckAuthResume(outcome, AnyUser)
    \/ timers = << >> /\ checks = 0 /\ ModalCalls
    \/ TimerFire

SpecSurfaces == InitSurfaces /\ [][NextSurfaces]_vars

\* Modal: the controllers on the shipped page layouts, the profile dialog
\* opened and closed at any time, timers firing in due order.
NextModal ==
    \/ PageLoad
    \/ CheckAuthSettles
    \/ \E via \in {"authModule"} \cup AvatarBlocks(variant), p \in 1..(MaxTimers + 1) :
            OpenProfileModal(via, p)
    \/ \E via \in {"authModule", CloseButton, ProfileModal}, p \in 1..(MaxTimers + 1) :
            CloseProfileModal(via, p)
    \/ ClickModalContent
    \/ TimerFire

SpecModal == Init /\ [][NextModal]_vars

\* Frame: everything a page with all its surfaces offers at once: page
\* load, session checks one at a time, one logout, the login redirect and
\* the profile dialog, opened and closed when no timer of an earlier call is
\* pending.
InitFrame == InitOn(Variants, [v \in Variants |-> {FullPage(v)}], {"ready"})

NextFrame ==
    \/ PageLoad
    \/ checks = 0 /\ CheckAuthCall
    \/ \E outcome \in {"session", "nosession"} : CheckAuthResume(outcome, AnyUser)
    \/ logouts = << >> /\ \E via \in {"authModule", LogoutButton} : LogoutCall(via)
    \/ \E i \in 1..MaxLogouts, resp \in Responses : LogoutFetchDone(i, resp)
    \/ \E i \in 1..MaxLogouts, res \in SignOutResults : LogoutSignOutDone(i, res)
    \/ \E via \in {"authModule", LoginButton, MobileLoginButton} : RedirectToLogin(via)
    \/ timers = << >> /\ ModalCalls
    \/ TimerFire

SpecFrame == InitFrame /\ [][NextFrame]_vars

\* Race: logout is called while a checkAuth call is suspended at getSession,
\* and no session check is started after it; the two calls resume in either
\* order.
NextRace ==
    \/ logouts = << >> /\ PageLoad
    \/ logouts = << >> /\ CheckAuthCall
    \/ CheckAuthSettles
    \/ checks > 0 /\ \E via \in {"authModule", LogoutButton} : LogoutCall(via)
    \/ \E i \in 1..MaxLogouts, resp \in Responses : LogoutFetchDone(i, resp)
    \/ \E i \in 1..MaxLogouts, res \in SignOutResults : LogoutSignOutDone(i, res)
    \/ TimerFire

SpecRace == Init /\ [][NextRace]_vars

-----------------------------------------------------------------------------
(* Claims about the session controller, checked under Spec *)

Settled(l) ==
    /\ l.pc = "done"
    /\ \/ l.server = "reject"
       \/ l.server \in {"2xx", "non2xx"} /\ l.signOut \in SignOutResults

\* C1: after a checkAuth call completes, the session state is Authenticated
\* (currentUser non-null) exactly when that call's getSession query returned
\* a session with no error.
C1_CheckAuthDecidesState ==
    op.name = "checkAuth" => ((currentUser # Null) <=> (op.arg = "session"))

\* C2: every logout call whose requests have settled, in any of the four
\* combinations of the server call and signOut succeeding or failing, has
\* cleared currentUser and navigated to /auth.
C2_LogoutAlwaysRedirects ==
    \A i \in 1..Len(logouts) :
        Settled(logouts[i]) => (logouts[i].cleared /\ logouts[i].nav)

\* C5: signOut is issued only by a logout call whose server
\* request was issued and has completed.
C5_ServerRequestFirst ==
    \A i \in 1..Len(logouts) :
        logouts[i].signOut # "none" => logouts[i].server \in {"2xx", "non2xx"}

\* Where the ordering does hold: in the mobile and sidebar controllers signOut
\* is issued only after the server request of the same call has completed
\* with a response; the basic controller issues no server request at all.
ServerRequestFirstWhereIssued ==
    \A i \in 1..Len(logouts) :
        IF variant = "basic"
        THEN logouts[i].server = "none"
        ELSE /\ logouts[i].server # "none"
             /\ logouts[i].signOut # "none" => logouts[i].server \in {"2xx", "non2xx"}

SignOutAfterServerResponse ==
    \E i \in 1..Len(logouts) :
        /\ variant # "basic"
        /\ logouts[i].server = "non2xx"
        /\ logouts[i].signOut = "pending"

\* C6: a logout by a signed-in user whose server call answered non-2xx and
\* whose signOut succeeded issued both calls, navigated to /auth and logged
\* exactly one diagnostic.
C6_ServerFailureLoggedOnce ==
    \A i \in 1..Len(logouts) :
        (/\ logouts[i].authed
         /\ logouts[i].pc = "done"
         /\ logouts[i].server = "non2xx"
         /\ logouts[i].signOut = "ok")
            => (logouts[i].nav /\ Len(logouts[i].diag) = 1)

-----------------------------------------------------------------------------
(* Claims about page load, checked under SpecLoad *)

\* C3: at most one client handle is ever constructed with createClient,
\* however the DOMContentLoaded handler and chatService.init interleave, and
\* the controller and the chat service then hold the same handle.
C3_SingleClientHandle ==
    /\ created <= 1
    /\ (supabaseClient # 0 /\ winClient # 0) => supabaseClient = winClient

\* The unauthenticated projection is on every present surface.
RenderedUnauthenticated ==
    \A k \in 1..Len(UnauthenticatedStmts) :
        LET st     == UnauthenticatedStmts[k]
            target == IF st.guard = "img" THEN ImgOf(st.id) ELSE st.id
        IN  (st.id \in present /\ target \in present)
                => dom[target][st.field] =
                      (IF st.val.err = NoErr THEN st.val.val ELSE LoginLiteral)

\* C4: once the configuration fetch has failed (network failure, unparsable
\* body) the controller has rendered the unauthenticated projection on every
\* present surface.
C4_ConfigFailureRendersUnauthenticated ==
    dcl = "failed" => RenderedUnauthenticated

-----------------------------------------------------------------------------
(* Claims about the UI binder, checked under SpecSurfaces and SpecRender *)

\* C7: on every page, whatever subset of the optional surfaces it has, no step
\* of initElements, setupEventListeners, the two render functions,
\* openProfileModal or closeProfileModal raises an error for an absent
\* surface; with the elements looked up and the translation module loaded
\* they raise no error at all.
C7_AbsentSurfacesSkipped ==
    /\ NullElement \notin raised
    /\ (elementsInit /\ i18n = "ready") => raised = {}

\* a page without the mobile sidebar, after a render and after a modal call
C7_Witness ==
    /\ variant = "sidebar"
    /\ SidebarUser \in present
    /\ MobileSidebarUser \notin present
    /\ MobileSidebarEmail \notin present
    /\ ProfileModal \notin present
    /\ currentUser # Null
    /\ op.name = "closeProfileModal"

\* C8: rendering is idempotent: in the state a session check has just
\* rendered, rendering the same session state once more changes nothing.
C8_RenderIdempotent ==
    op.name = "checkAuth" =>
        IF op.arg = "session"
        THEN updateUIForAuthenticatedUser(currentUser, dom).dom = dom
        ELSE updateUIForUnauthenticatedUser(dom).dom = dom

\* an authenticated render that wrote the profile dialog and an avatar block
C8_Witness ==
    /\ op.name = "checkAuth"
    /\ op.arg = "session"
    /\ ProfileEmail \in present
    /\ dom[ProfileEmail].text = NoEmailLiteral
    /\ \E b \in AvatarBlocks(variant) :
          ImgOf(b) \in present /\ dom[ImgOf(b)].src = DefaultAvatar(variant)

\* C9: rendering is total: after the unauthenticated state has been rendered
\* the profile dialog's email and avatar no longer show a user's data.
C9_RenderTotal ==
    (op.name = "checkAuth" /\ op.arg # "session" /\ raised = {}) =>
        \A u \in Users :
            /\ (ProfileEmail \in present /\ EmailOf(u) # "")
                  => dom[ProfileEmail].text # EmailOf(u)
            /\ (ProfileAvatar \in present /\ AvatarOf(u) # "")
                  => dom[ProfileAvatar].src # AvatarOf(u)

-----------------------------------------------------------------------------
(* Claims about the modal coordinator, checked under SpecModal *)

ModalBound == elementsInit /\ ProfileModal \in present

HasTimer(q, cb, delay) == \E k \in 1..Len(q) : q[k] = [cb |-> cb, delay |-> delay]

\* C10: open() shows the dialog at once and leaves 'active' to its 10 ms
\* timer; close() removes 'active' at once and leaves hiding to its 300 ms
\* timer: nothing but those timers adds 'active' or hides the dialog.
C10_ModalSequencing ==
    [][ /\ (op'.name = "openProfileModal" /\ ModalBound) =>
              /\ dom'[ProfileModal].display = "block"
              /\ dom'[ProfileModal].active = dom[ProfileModal].active
              /\ Len(timers') = Len(timers) + 1
              /\ HasTimer(timers', "addActive", OpenDelayMs)
        /\ (op'.name = "closeProfileModal" /\ ModalBound) =>
              /\ ~dom'[ProfileModal].active
              /\ dom'[ProfileModal].display = dom[ProfileModal].display
              /\ Len(timers') = Len(timers) + 1
              /\ HasTimer(timers', "hide", CloseDelayMs)
        /\ (~dom[ProfileModal].active /\ dom'[ProfileModal].active) =>
              /\ op'.name = "timer"
              /\ Head(timers) = [cb |-> "addActive", delay |-> OpenDelayMs]
        /\ (dom[ProfileModal].display = "block" /\ dom'[ProfileModal].display # "block") =>
              /\ op'.name = "timer"
              /\ Head(timers) = [cb |-> "hide", delay |-> CloseDelayMs]
      ]_vars

\* after an outside click on the open dialog: still displayed, close timer pending
C10_Witness ==
    /\ op = [name |-> "closeProfileModal", arg |-> ProfileModal]
    /\ dom[ProfileModal].display = "block"
    /\ ~dom[ProfileModal].active
    /\ timers = << [cb |-> "hide", delay |-> CloseDelayMs] >>

-----------------------------------------------------------------------------
(* Claims about the shared client handle and the translation module,      *)
(* checked under SpecLoad                                                  *)

\* C11: window.supabaseClient is published once: after a handle has been
\* published no step replaces it with a different handle.
C11_PublishedOnce ==
    [][winClient # 0 => winClient' = winClient]_vars

\* C12: a failure of the translation module never keeps the authentication
\* flow from running: the DOMContentLoaded handler does not end before its
\* configuration fetch, and a session check that finds no session still
\* renders the login text, falling back to the literal passed to t().
C12_I18nFailureDoesNotBlock ==
    /\ dcl # "rejected"
    /\ (op.name = "checkAuth" /\ op.arg = "nosession" /\ i18n # "ready")
          => /\ raised = {}
             /\ dom[SidebarEmail].text = LoginLiteral

\* C13: a non-2xx answer to GET /api/auth/config builds no client handle:
\* the controller's startup completes only on a 2xx answer, and an init call
\* of the chat service answered non-2xx builds nothing and returns false.
C13_Non2xxBuildsNoHandle ==
    /\ dcl = "done" => response = "2xx"
    /\ \A k \in 1..Len(chat) :
          (chat[k].pc = "done" /\ chat[k].status = "non2xx")
              => (chat[k].built = 0 /\ chat[k].result = "false")

-----------------------------------------------------------------------------
(* Claims about the session state machine, checked under Spec *)

\* The session state the code holds: Authenticated while currentUser is set,
\* else Unknown until a checkAuth call has completed and rendered, then
\* Unauthenticated.
SessionState ==
    IF currentUser # Null THEN "Authenticated"
    ELSE IF checked THEN "Unauthenticated"
    ELSE "Unknown"

\* C14: the session state changes only from Unknown, when a checkAuth call
\* completes, and from Authenticated to Unauthenticated, when a logout call
\* completes.
C14_OnlyListedTransitions ==
    [][SessionState' # SessionState =>
          \/ SessionState = "Unknown" /\ op'.name = "checkAuth"
          \/ /\ SessionState = "Authenticated"
             /\ SessionState' = "Unauthenticated"
             /\ op'.name = "logoutDone"]_vars

\* C14 with the re-check: besides the transitions above, a later checkAuth
\* call that finds a session moves Unauthenticated to Authenticated.  The
\* state becomes Authenticated only by a checkAuth call that found a session,
\* leaves Authenticated only by a logout, and never returns to Unknown;
\* currentUser is written by no other step.
C14_TransitionsWithRecheck ==
    [][/\ SessionState' # SessionState =>
             \/ /\ SessionState \in {"Unknown", "Unauthenticated"}
                /\ SessionState' = "Authenticated"
                /\ op' = [name |-> "checkAuth", arg |-> "session"]
             \/ /\ SessionState = "Unknown"
                /\ SessionState' = "Unauthenticated"
                /\ op'.name = "checkAuth"
             \/ /\ SessionState = "Authenticated"
                /\ SessionState' = "Unauthenticated"
                /\ op'.name = "logoutDone"
       /\ currentUser' # currentUser =>
             \/ op' = [name |-> "checkAuth", arg |-> "session"]
             \/ op' = [name |-> "logoutDone", arg |-> "ok"]]_vars

\* a signed-in user has logged out: Authenticated to Unauthenticated
C14_Witness ==
    /\ op = [name |-> "logoutDone", arg |-> "ok"]
    /\ SessionState = "Unauthenticated"
    /\ \E i \in 1..Len(logouts) : logouts[i].authed /\ logouts[i].cleared

-----------------------------------------------------------------------------
(* Frame claims, checked under SpecFrame *)

SessionSteps == {"checkAuthCall", "checkAuth", "logoutCall", "logoutFetchDone", "logoutDone"}

ModalSteps == {"openProfileModal", "closeProfileModal", "click", "timer"}

\* C15: currentUser is written only by a completing checkAuth or logout:
\* page load, the click bindings, the modal calls, the timers and
\* redirectToLogin leave it as it is, and redirectToLogin changes nothing
\* but window.location, which it sets to /auth.
C15_OnlyControllerWritesSession ==
    [][/\ currentUser' # currentUser => op'.name \in {"checkAuth", "logoutDone"}
       /\ op'.name = "redirectToLogin" =>
             /\ location' = "/auth"
             /\ UNCHANGED <<variant, present, ops, i18n, elementsInit, currentUser, dom,
                            supabaseClient, winClient, created, dcl, checks, logouts,
                            chat, timers, log>>]_vars

\* redirectToLogin was called with a user signed in, who still is
C15_Witness ==
    /\ op.name = "redirectToLogin"
    /\ location = "/auth"
    /\ currentUser # Null

\* C16: the modal calls, clicks and timers never change the session state,
\* and no step of checkAuth or logout changes the dialog's display or
\* 'active' or sets a timer.
C16_ModalAndSessionDisjoint ==
    [][/\ op'.name \in ModalSteps => currentUser' = currentUser
       /\ op'.name \in SessionSteps =>
             /\ dom'[ProfileModal].display = dom[ProfileModal].display
             /\ dom'[ProfileModal].active = dom[ProfileModal].active
             /\ timers' = timers]_vars

-----------------------------------------------------------------------------
(* Claims about the dialog's clicks and stale timers, checked under SpecModal *)

\* C17: a click on the backdrop (the modal element itself) or on a close
\* control closes the dialog: 'active' is removed and the 300 ms timer set;
\* a click inside the dialog content changes neither the dialog nor the
\* timers.
C17_OnlyBackdropAndCloseControl ==
    [][/\ op' = [name |-> "click", arg |-> ModalContent] =>
             (dom' = dom /\ timers' = timers)
       /\ (op'.name = "closeProfileModal" /\ op'.arg \in {ProfileModal, CloseButton}) =>
             /\ ~dom'[ProfileModal].active
             /\ Len(timers') = Len(timers) + 1
             /\ HasTimer(timers', "hide", CloseDelayMs)]_vars

\* the open, animated-in dialog was clicked inside its content
C17_Witness ==
    /\ op = [name |-> "click", arg |-> ModalContent]
    /\ dom[Window].click = "closeIfBackdrop"
    /\ dom[ProfileModal].display = "block"
    /\ dom[ProfileModal].active
    /\ timers = << >>

-----------------------------------------------------------------------------
(* Claims about chatService.init, checked under SpecLoad and SpecChat *)

\* C18: an init call issues the configuration fetch only after 50 polls
\* that all found no shared handle; a call that found the handle at once or
\* at one of its polls has returned true and has fetched and built nothing.
C18_FetchOnlyAfterAllPolls ==
    \A k \in 1..Len(chat) :
        /\ chat[k].fetches > 0 => chat[k].i = MaxPolls
        /\ chat[k].built > 0 => chat[k].fetches > 0
        /\ (chat[k].pc = "done" /\ chat[k].i < MaxPolls) =>
              /\ chat[k].result = "true"
              /\ chat[k].fetches = 0
              /\ chat[k].built = 0
              /\ winClient # 0

\* the controller published its handle while init was polling
C18_Witness ==
    \E k \in 1..Len(chat) :
        /\ chat[k].pc = "done"
        /\ chat[k].i \in 1..(MaxPolls - 1)
        /\ chat[k].result = "true"
        /\ chat[k].fetches = 0
        /\ dcl = "done"

ChatInitBounded ==
    \A k \in 1..Len(chat) :
        /\ chat[k].i <= MaxPolls
        /\ chat[k].fetches <= 1
        /\ chat[k].built <= chat[k].fetches
        /\ (chat[k].pc = "done") <=> (chat[k].result \in {"true", "false"})
        /\ chat[k].result = "true" => winClient # 0
        /\ (chat[k].pc = "done" /\ winClient = 0) => chat[k].result = "false"

\* C19: every init call returns: it polls at most 50 times, issues at most
\* one configuration fetch (none after a failure), returns true only with
\* window.supabaseClient set and false otherwise.
C19_InitTerminates ==
    /\ []ChatInitBounded
    /\ \A k \in 1..MaxChat :
          (Len(chat) >= k) ~> (Len(chat) >= k /\ chat[k].pc = "done")

\* an init call polled 50 times, fetched once, was refused and returned false
C19_Witness ==
    \E k \in 1..Len(chat) :
        /\ chat[k].pc = "done"
        /\ chat[k].i = MaxPolls
        /\ chat[k].fetches = 1
        /\ chat[k].result = "false"
        /\ winClient = 0

-----------------------------------------------------------------------------
(* Stale timers of the dialog, checked under SpecModal *)

\* C20: once no timer is pending the dialog agrees with the modal call made
\* last: shown and 'active' after openProfileModal, hidden and not 'active'
\* after closeProfileModal.
C20_SettlesToLastCall ==
    (timers = << >> /\ ModalBound /\ lastModal # "none") =>
        IF lastModal = "open"
        THEN dom[ProfileModal].display = "block" /\ dom[ProfileModal].active
        ELSE dom[ProfileModal].display = "none" /\ ~dom[ProfileModal].active

-----------------------------------------------------------------------------
(* checkAuth racing logout, checked under SpecRace *)

\* C21: when logout was called with a checkAuth call in flight, then once
\* every call has completed and a signOut succeeded, currentUser is null and
\* every present surface shows the unauthenticated projection, whichever
\* call resumed last.
C21_LogoutWinsRace ==
    (/\ checks = 0
     /\ \A i \in 1..Len(logouts) : logouts[i].pc = "done"
     /\ \E i \in 1..Len(logouts) : logouts[i].signOut = "ok")
        => (currentUser = Null /\ RenderedUnauthenticated)

-----------------------------------------------------------------------------
(* chatService data operations, checked under SpecOps *)

\* A failure of an operation's own steps: the shared client was absent when
\* the operation started, or a request of its own settled with no user, an
\* error or a rejection. The session update that addChatMessage hands to
\* updateChatSession is that operation's request.
OwnFailure(o) ==
    \/ o.issued = << >>
    \/ \E j \in 1..Len(o.results) :
          /\ o.results[j] \in {"nouser", "error", "reject"}
          /\ ~(o.fn = "addChatMessage" /\ j = 2)

\* C22: no chatService data operation throws to its caller; after a failure
\* getChatSessions and getChatMessages return an empty list,
\* createChatSession, updateChatSession and addChatMessage return null and
\* deleteChatSession returns false; getChatSessions and createChatSession
\* issue no table query when auth.getUser gave no user.
C22_OperationsNeverThrow ==
    \A k \in 1..Len(ops) :
        /\ ~ops[k].threw
        /\ (ops[k].pc = "done" /\ OwnFailure(ops[k])) =>
              ops[k].ret = CASE ops[k].fn \in {"getChatSessions", "getChatMessages"} -> "empty"
                             [] ops[k].fn = "deleteChatSession" -> "false"
                             [] OTHER -> "null"
        /\ (/\ ops[k].fn \in {"getChatSessions", "createChatSession"}
            /\ ops[k].results # << >>
            /\ ops[k].results[1] # "user") => ops[k].issued = <<"auth.getUser">>

C22_Witness ==
    \E k \in 1..Len(ops) :
        /\ ops[k].fn = "createChatSession"
        /\ ops[k].pc = "done"
        /\ ops[k].results = <<"nouser">>
        /\ ops[k].ret = "null"

\* C23: addChatMessage issues the session update only after its insert has
\* settled without an error; after a failed insert it issues no session
\* update and returns null; once the session update was issued it returns
\* the inserted message, whatever the update settled with.
C23_UpdateOnlyAfterInsert ==
    \A k \in 1..Len(ops) :
        ops[k].fn = "addChatMessage" =>
            /\ "chat_sessions.update" \in {ops[k].issued[j] : j \in 1..Len(ops[k].issued)} =>
                  /\ ops[k].issued = <<"chat_messages.insert", "chat_sessions.update">>
                  /\ ops[k].results # << >>
                  /\ ops[k].results[1] \in {"data", "nodata"}
            /\ (ops[k].results # << >> /\ ops[k].results[1] \in {"error", "reject"}) =>
                  /\ ops[k].pc = "done"
                  /\ ops[k].issued = <<"chat_messages.insert">>
                  /\ ops[k].ret = "null"
            /\ (ops[k].pc = "done" /\ Len(ops[k].results) = 2) =>
                  ops[k].ret = IF ops[k].results[1] = "data" THEN "data" ELSE "null"

C23_Witness ==
    \E k \in 1..Len(ops) :
        /\ ops[k].fn = "addChatMessage"
        /\ ops[k].pc = "done"
        /\ ops[k].results = <<"data", "error">>
        /\ ops[k].ret = "data"

====
